---- MODULE Spec2Model ----
(***************************************************************************)
(* Model of Bhum_dashboard.py: the monetary-policy scenario script.  One   *)
(* simulation request is one run of the script from the point where the    *)
(* widget values have been read (lines 43-77) to the insight list (lines   *)
(* 275-308).  Numbers are fixed point:                                     *)
(*   shocks, risk contributions and the raw risk score in hundredths,      *)
(*   percentage effects in millionths of a percentage point,               *)
(*   GDP levels in thousandths of a billion,                               *)
(*   inflation levels in millionths of a percentage point,                 *)
(*   the volatility ratio in hundred-thousandths,                          *)
(*   the normalized risk score in units of 1/900 (so that x/9.0*10.0 on    *)
(*   a hundredths grid is exact).                                          *)
(***************************************************************************)
EXTENDS Integers, Sequences, FiniteSets

\* ---------------------------------------------------------------- bounds
\* Number of requests (script runs) in one session.
MaxRequests == 2
\* Quarter-point positions on each side of zero that the single-request sweep
\* feeds to the rate and inflation shocks (the sliders stop at 8).
ShockReach == 12

\* ------------------------------------------------------- number helpers
\* Resolution of the shock values: sliders step by 0.25 and 0.5, presets use
\* 0.2 and 1.2, so every shock is a whole number of hundredths.
Cents == 100

Abs(x) == IF x < 0 THEN -x ELSE x

Sign(x) == IF x > 0 THEN 1 ELSE IF x < 0 THEN -1 ELSE 0

Max(a, b) == IF a >= b THEN a ELSE b

Min(a, b) == IF a <= b THEN a ELSE b

RECURSIVE SumSeq(_)
SumSeq(s) == IF s = <<>> THEN 0 ELSE Head(s) + SumSeq(Tail(s))

RECURSIVE ISqrtBetween(_, _, _)
\* Largest r in lo..hi with r*r <= n, by bisection.
ISqrtBetween(n, lo, hi) ==
    IF lo >= hi THEN lo
    ELSE LET mid == (lo + hi + 1) \div 2
         IN  IF mid * mid <= n THEN ISqrtBetween(n, mid, hi)
             ELSE ISqrtBetween(n, lo, mid - 1)

\* floor(sqrt(n)) for 0 <= n < 46340^2.
ISqrt(n) == ISqrtBetween(n, 0, 46339)

\* floor(a * b / c) for c > 0, without forming a * b.
MulDivFloor(a, b, c) == a * (b \div c) + (a * (b % c)) \div c

\* ------------------------------------------------------ widget inputs
Scenarios ==
    {"Custom", "Tightening cycle", "Easing cycle", "Liquidity shock",
     "Inflation shock", "Stagflation"}

\* The liquidity slider, -5.0 to 5.0 in steps of 0.5, in hundredths.
LiquiditySlider == {50 * k : k \in -10 .. 10}

\* The lowest, default and highest position of each shock slider.
RateStops == {-200, 0, 200}

LiquidityStops == {-500, 0, 500}

InflationStops == {-200, 0, 200}

\* Values the preset block assigns to the three shocks.
Preset(s) ==
    CASE s = "Tightening cycle" -> [rate |-> 100, liq |-> -100, infl |-> -25]
      [] s = "Easing cycle"     -> [rate |-> -100, liq |-> 200, infl |-> 25]
      [] s = "Liquidity shock"  -> [rate |-> 0, liq |-> -400, infl |-> 20]
      [] s = "Inflation shock"  -> [rate |-> 50, liq |-> 0, infl |-> 150]
      [] s = "Stagflation"      -> [rate |-> 50, liq |-> -150, infl |-> 120]

\* The shocks the rest of the script sees: the slider values, overwritten by
\* the preset when one is selected.
EffectiveShock(s, r, l, i) ==
    IF s # "Custom" THEN Preset(s) ELSE [rate |-> r, liq |-> l, infl |-> i]

\* ------------------------------------------------- historical series
NumYears == 16

\* years = list(range(2010, 2026))
years == [k \in 1 .. NumYears |-> 2009 + k]

\* The first 16 results of rng.integers(-20, 20) on numpy's PCG64 generator
\* seeded with 42 (draws 1..16 of the stream).
RngIntegers ==
    <<-17, 10, 6, -3, -3, 14, -17, 7, -12, -17, 1, 19, 9, 10, 8, 11>>

\* The next 16 draws, rng.uniform(-1.0, 1.0), in millionths (draws 17..32).
RngUniform ==
    <<-743773, -99228, -258404, 853530, 287730, 645523, -113172, -545523,
      109170, -872365, 655262, 263329, 516175, -290948, 941396, 786242>>

\* np.random.default_rng(seed=42): a generator that has made no draw yet.
default_rng == 0

\* gdp = [1000 + i * 50 + int(rng.integers(-20, 20)) for i in range(16)],
\* drawn by a generator that has already made `drawn` draws.
HistoricalGDP(drawn) ==
    [k \in 1 .. NumYears |-> 1000 + (k - 1) * 50 + RngIntegers[drawn + k]]

\* inflation = [5.0 + float(rng.uniform(-1.0, 1.0)) for _ in range(16)], in
\* millionths, drawn by a generator that has already made `drawn` draws.
HistoricalInflation(drawn) ==
    [k \in 1 .. NumYears |-> 5000000 + RngUniform[drawn - NumYears + k]]

\* ------------------------------------------------------------- state
VARIABLES
    pc,                    \* where the script run stands
    runs,                  \* requests made so far in the session
    scenario,              \* the preset selectbox
    interest_rate_change,  \* shocks after the preset block, in hundredths
    liquidity_change,
    inflation_change,
    rng,                   \* draws made by the generator
    gdp,                   \* data["GDP"], billions
    inflation,             \* data["Inflation"], millionths
    gdp_vol_pct,           \* hundred-thousandths
    projected_gdp,         \* thousandths of a billion
    proj_gdp_best,
    proj_gdp_worst,
    projected_infl,        \* millionths
    contrib_interest,      \* hundredths
    contrib_liquidity,
    contrib_inflation,
    risk_score,            \* hundredths
    risk_score_normalized, \* units of 1/900
    risk_level,
    heat_df,               \* column name -> (component -> value)
    dominant,
    insights

vars ==
    <<pc, runs, scenario, interest_rate_change, liquidity_change,
      inflation_change, rng, gdp, inflation, gdp_vol_pct, projected_gdp,
      proj_gdp_best, proj_gdp_worst, projected_infl, contrib_interest,
      contrib_liquidity, contrib_inflation, risk_score,
      risk_score_normalized, risk_level, heat_df, dominant, insights>>

inputVars == <<scenario, interest_rate_change, liquidity_change, inflation_change>>

historyVars == <<rng, gdp, inflation, gdp_vol_pct>>

projectionVars == <<projected_gdp, proj_gdp_best, proj_gdp_worst, projected_infl>>

riskVars ==
    <<contrib_interest, contrib_liquidity, contrib_inflation, risk_score,
      risk_score_normalized, risk_level>>

insightVars == <<dominant, insights>>

\* Nothing has been computed yet.
Blank ==
    /\ runs = 0
    /\ scenario = "Custom"
    /\ interest_rate_change = 0
    /\ liquidity_change = 0
    /\ inflation_change = 0
    /\ rng = default_rng
    /\ gdp = <<>>
    /\ inflation = <<>>
    /\ gdp_vol_pct = 0
    /\ projected_gdp = <<>>
    /\ proj_gdp_best = <<>>
    /\ proj_gdp_worst = <<>>
    /\ projected_infl = <<>>
    /\ contrib_interest = 0
    /\ contrib_liquidity = 0
    /\ contrib_inflation = 0
    /\ risk_score_normalized = 0
    /\ risk_level = "none"
    /\ heat_df = <<>>
    /\ dominant = "none"
    /\ insights = <<>>

\* Before the first request.
Init ==
    /\ pc = "ready"
    /\ risk_score = 0
    /\ Blank

\* A request: the script starts over with the widget values s, r, l, i and
\* runs the preset block.  Values left by the previous run stay where they
\* are until the script assigns them again.
Request(s, r, l, i) ==
    /\ pc \in {"ready", "done", "failed"}
    /\ runs' = runs + 1
    /\ pc' = "history"
    /\ scenario' = s
    /\ interest_rate_change' = EffectiveShock(s, r, l, i).rate
    /\ liquidity_change' = EffectiveShock(s, r, l, i).liq
    /\ inflation_change' = EffectiveShock(s, r, l, i).infl
    /\ UNCHANGED <<historyVars, projectionVars, riskVars, heat_df, insightVars>>

\* ------------------------------------------- lines 79-88: history
\* np.diff(data["GDP"])
Diff(g) == [k \in 1 .. Len(g) - 1 |-> g[k + 1] - g[k]]

\* np.std(d) * 100, rounded down: sqrt(n * sum(d^2) - sum(d)^2) / n.
StdTimes100(d) ==
    LET n == Len(d)
        s1 == SumSeq(d)
        s2 == SumSeq([k \in 1 .. n |-> d[k] * d[k]])
    IN  ISqrt((n * s2 - s1 * s1) * 10000) \div n

\* gdp_vol_pct = np.std(np.diff(GDP)) / np.mean(GDP), in hundred-thousandths,
\* replaced by 0.02 when it is not positive.
VolatilityFloor == 2000

GdpVolPct(g) ==
    LET ratio == (StdTimes100(Diff(g)) * Len(g) * 1000) \div SumSeq(g)
    IN  IF ratio <= 0 THEN VolatilityFloor ELSE ratio

\* The list of the previous request kept instead of a new one.
CarriedList == projected_gdp

\* projected_gdp = [] and the three lists beside it.
EmptyList == <<>>

\* Lines 80-88 and 106-114: the generator is created from the seed, the two
\* series are drawn from it, the four projection lists are created empty and
\* the volatility is computed.
History ==
    /\ pc = "history"
    /\ pc' = "project"
    /\ rng' = default_rng + 2 * NumYears
    /\ gdp' = HistoricalGDP(default_rng)
    /\ inflation' = HistoricalInflation(default_rng + NumYears)
    /\ gdp_vol_pct' = GdpVolPct(gdp')
    /\ projected_gdp' = EmptyList
    /\ proj_gdp_best' = EmptyList
    /\ proj_gdp_worst' = EmptyList
    /\ projected_infl' = EmptyList
    /\ UNCHANGED <<runs, inputVars, riskVars, heat_df, insightVars>>

\* ------------------------------------ lines 99-157: shock response
\* Coefficients, in hundredths.
alpha_int == 60

beta_int == 25

alpha_liq == 15

gamma_infl == 35

quadratic_infl_threshold == 200

\* The literal 0.05 of the extra inflation penalty, in hundredths.
infl_penalty_coeff == 5

\* tanh(k / 10) in millionths, k = 0 .. 10.
TanhTable ==
    <<0, 99668, 197375, 291313, 379949, 462117, 537050, 604368, 664037,
      716298, 761594>>

\* np.tanh(liquidity_change / 5.0) in millionths, for a liquidity change on
\* the slider grid (multiples of 0.5 up to 5.0 either way).
Tanh5(l) == Sign(l) * TanhTable[Abs(l) \div 50 + 1]

\* int_lin = alpha_int * interest_rate_change, in millionths of a point.
IntLin(x) == alpha_int * x * Cents

\* The quadratic term applied to hikes only.
IntQuadHikesOnly(x) == beta_int * Max(0, x) * Max(0, x)

\* int_quad = beta_int * max(0, x) ** 2 if x > 0 else beta_int * min(0, x) ** 2
IntQuad(x) ==
    IF x > 0 THEN beta_int * Max(0, x) * Max(0, x)
    ELSE beta_int * Min(0, x) * Min(0, x)

InterestEffectPct(x) == IntLin(x) + IntQuad(x)

\* liquidity_effect_pct = alpha_liq * np.tanh(liquidity_change / 5.0)
LiquidityEffectPct(l) == Sign(l) * ((alpha_liq * Abs(Tanh5(l))) \div Cents)

\* The extra penalty without the sign of the shock.
InflPenaltyUnsigned(i) ==
    IF Abs(i) > quadratic_infl_threshold
    THEN infl_penalty_coeff * (Abs(i) - quadratic_infl_threshold)
             * (Abs(i) - quadratic_infl_threshold)
    ELSE 0

\* The extra penalty added to infl_effect_pct beyond the threshold.
InflPenalty(i) ==
    IF Abs(i) > quadratic_infl_threshold
    THEN infl_penalty_coeff * (Abs(i) - quadratic_infl_threshold)
             * (Abs(i) - quadratic_infl_threshold) * Sign(i)
    ELSE 0

InflEffectPct(i) == gamma_infl * i * Cents + InflPenalty(i)

\* combined_pct = -interest_effect_pct + liquidity_effect_pct - infl_effect_pct
CombinedPct(x, l, i) ==
    -InterestEffectPct(x) + LiquidityEffectPct(l) - InflEffectPct(i)

\* projected = max(base_gdp * (1 + combined_pct / 100.0), 0.0), thousandths.
Projected(base_gdp, combined_pct) ==
    Max(base_gdp * 1000 + MulDivFloor(base_gdp, combined_pct, 100000), 0)

\* shock_strength, in thousandths.
ShockStrength(x, l, i) == (60 * Abs(x) + 30 * Abs(l) + 80 * Abs(i)) \div 10

\* band_multiplier = 1 + min(0.6, shock_strength / 5.0), in ten-thousandths.
BandMultiplier(x, l, i) == 10000 + Min(6000, (ShockStrength(x, l, i) * 10) \div 5)

\* band = base_gdp * gdp_vol_pct * band_multiplier, thousandths.
Band(base_gdp, vol, x, l, i) ==
    (((base_gdp * vol) \div 100) * BandMultiplier(x, l, i)) \div 10000

\* The band applied with the wrong sign.
BestBelow(projected, band) == projected - band

Best(projected, band) == projected + band

Worst(projected, band) == Max(projected - band, 0)

\* The clip with its ceiling at 5 instead of 50.
ProjectedInflationLowCap(base_infl, i) ==
    Min(Max(base_infl + i * 10000, -10000000), 5000000)

\* projected_inflation = float(np.clip(base_infl + inflation_change, -10, 50))
ProjectedInflation(base_infl, i) ==
    Min(Max(base_infl + i * 10000, -10000000), 50000000)

\* One pass of the loop body for the year at position k of the data frame.
Row(k) ==
    LET base_gdp == gdp[k]
        projected == Projected(base_gdp,
                         CombinedPct(interest_rate_change, liquidity_change,
                                     inflation_change))
        band == Band(base_gdp, gdp_vol_pct, interest_rate_change,
                     liquidity_change, inflation_change)
    IN  [projected |-> projected,
         best |-> Best(projected, band),
         worst |-> Worst(projected, band),
         infl |-> ProjectedInflation(inflation[k], inflation_change)]

\* list.append
ListAppend(list, v) == Append(list, v)

RECURSIVE AppendRows(_, _, _)
\* The appends of the loop for the years at positions k, k + 1, ... of the
\* data frame onto `list`; field names the value of the row that is appended.
AppendRows(list, k, field) ==
    IF k > Len(gdp) THEN list
    ELSE AppendRows(ListAppend(list, Row(k)[field]), k + 1, field)

\* Lines 116-163: the loop over data.index, appending to the four lists.
ProjectionLoop ==
    /\ pc = "project"
    /\ pc' = "risk"
    /\ projected_gdp' = AppendRows(projected_gdp, 1, "projected")
    /\ proj_gdp_best' = AppendRows(proj_gdp_best, 1, "best")
    /\ proj_gdp_worst' = AppendRows(proj_gdp_worst, 1, "worst")
    /\ projected_infl' = AppendRows(projected_infl, 1, "infl")
    /\ UNCHANGED <<runs, inputVars, historyVars, riskVars, heat_df, insightVars>>

\* --------------------------------------- lines 181-195: risk score
\* One unit of the normalized score is 1/900: a raw score in hundredths,
\* divided by 9.0 and multiplied by 10.0, is a whole number of these.
NormUnit == 9 * Cents

\* The contribution taken from the signed shock instead of its magnitude.
ContribInterestSigned(x) == x * 3

ContribInterest(x) == Abs(x) * 3

ContribLiquidity(l) == Abs(l) * 2

ContribInflation(i) == Abs(i) * 4

\* risk_score_normalized = min(10.0, (risk_score / 9.0) * 10.0)
RiskScoreNormalized(score) == Min(10 * NormUnit, score * 10)

\* The thresholds closed on the upper bound instead of the lower.
RiskLevelClosedAbove(normalized) ==
    IF normalized <= 3 * NormUnit THEN "Low"
    ELSE IF normalized <= 6 * NormUnit THEN "Medium"
    ELSE "High"

\* The if / elif / else on risk_score_normalized.
RiskLevel(normalized) ==
    IF normalized < 3 * NormUnit THEN "Low"
    ELSE IF normalized < 6 * NormUnit THEN "Medium"
    ELSE "High"

\* Lines 183-186: the three contributions and their sum.
Contributions ==
    /\ pc = "risk"
    /\ pc' = "classify"
    /\ contrib_interest' = ContribInterest(interest_rate_change)
    /\ contrib_liquidity' = ContribLiquidity(liquidity_change)
    /\ contrib_inflation' = ContribInflation(inflation_change)
    /\ risk_score' = contrib_interest' + contrib_liquidity' + contrib_inflation'
    /\ UNCHANGED <<runs, inputVars, historyVars, projectionVars,
                   risk_score_normalized, risk_level, heat_df, insightVars>>

\* Lines 188-195: the normalized score and the level.
Classify ==
    /\ pc = "classify"
    /\ pc' = "heat"
    /\ risk_score_normalized' = RiskScoreNormalized(risk_score)
    /\ risk_level' = RiskLevel(risk_score_normalized')
    /\ UNCHANGED <<runs, inputVars, historyVars, projectionVars,
                   contrib_interest, contrib_liquidity, contrib_inflation,
                   risk_score, heat_df, insightVars>>

\* ------------------------------- lines 249-260: contribution table
\* The index of heat_df, in the order the rows are declared.
Components == <<"Interest Rate", "Liquidity", "Inflation">>

ComponentSet == {Components[k] : k \in 1 .. Len(Components)}

SeriesMax(col) ==
    CHOOSE v \in {col[c] : c \in ComponentSet} :
        \A c \in ComponentSet : col[c] <= v

SeriesMin(col) ==
    CHOOSE v \in {col[c] : c \in ComponentSet} :
        \A c \in ComponentSet : col[c] >= v

\* The "Normalized" column, in ten-thousandths.
NormalizedColumn(raw) ==
    LET ptp_val == SeriesMax(raw) - SeriesMin(raw)
    IN  IF ptp_val = 0 THEN [c \in ComponentSet |-> 5000]
        ELSE [c \in ComponentSet |->
                 ((raw[c] - SeriesMin(raw)) * 10000) \div ptp_val]

HeatDf ==
    /\ pc = "heat"
    /\ pc' = "insight"
    /\ LET change == [c \in ComponentSet |->
                         CASE c = "Interest Rate" -> interest_rate_change
                           [] c = "Liquidity" -> liquidity_change
                           [] c = "Inflation" -> inflation_change]
           raw == [c \in ComponentSet |->
                      CASE c = "Interest Rate" -> contrib_interest
                        [] c = "Liquidity" -> contrib_liquidity
                        [] c = "Inflation" -> contrib_inflation]
       IN  heat_df' = [Change |-> change, Contribution_raw |-> raw,
                       Normalized |-> NormalizedColumn(raw)]
    /\ UNCHANGED <<runs, inputVars, historyVars, projectionVars, riskVars, insightVars>>

\* ------------------------------------- lines 273-311: insights
\* The column the insight code reads the contributions from.
DominantColumn == "Contribution (raw)"

RECURSIVE FirstAt(_, _, _)
FirstAt(col, v, k) ==
    IF col[Components[k]] = v THEN Components[k] ELSE FirstAt(col, v, k + 1)

\* Series.idxmax(): the label of the first row holding the maximum.
IdxMax(col) == FirstAt(col, SeriesMax(col), 1)

RateStatement(x) ==
    IF x > 0 THEN [kind |-> "rate", text |-> "slow GDP growth", value |-> x]
    ELSE IF x < 0 THEN [kind |-> "rate", text |-> "stimulus", value |-> x]
    ELSE [kind |-> "rate", text |-> "unchanged", value |-> 0]

LiquidityStatement(l) ==
    IF l < 0 THEN [kind |-> "liquidity", text |-> "contraction", value |-> l]
    ELSE IF l > 0 THEN [kind |-> "liquidity", text |-> "injection", value |-> l]
    ELSE [kind |-> "liquidity", text |-> "no major change", value |-> 0]

InflationStatement(i) ==
    IF i > 50 THEN [kind |-> "inflation", text |-> "rising", value |-> i]
    ELSE IF i < -50 THEN [kind |-> "inflation", text |-> "falling", value |-> i]
    ELSE [kind |-> "inflation", text |-> "modest", value |-> 0]

\* The combined risk insight.
OverallStatement(normalized) ==
    IF normalized >= 7 * NormUnit
    THEN [kind |-> "overall", text |-> "High risk", value |-> 0]
    ELSE IF normalized >= 4 * NormUnit
    THEN [kind |-> "overall", text |-> "Medium risk", value |-> 0]
    ELSE [kind |-> "overall", text |-> "Low risk", value |-> 0]

\* insights = [] and then the look-up heat_df["Contribution (raw)"]: a
\* column heat_df does not hold raises KeyError and the run ends there, with
\* nothing appended; otherwise the five statements are appended in order.
Insights ==
    /\ pc = "insight"
    /\ IF DominantColumn \in DOMAIN heat_df
       THEN /\ dominant' = IdxMax(heat_df[DominantColumn])
            /\ insights' =
                   <<[kind |-> "dominant", text |-> dominant',
                      value |-> heat_df[DominantColumn][dominant']],
                     RateStatement(interest_rate_change),
                     LiquidityStatement(liquidity_change),
                     InflationStatement(inflation_change),
                     OverallStatement(risk_score_normalized)>>
            /\ pc' = "done"
       ELSE /\ insights' = <<>>
            /\ pc' = "failed"
            /\ UNCHANGED dominant
    /\ UNCHANGED <<runs, inputVars, historyVars, projectionVars, riskVars, heat_df>>

\* ------------------------------------------------- specifications
\* A session: up to MaxRequests requests, each with every slider at its
\* lowest, default or highest position, and any preset.  Under a preset the
\* slider values are overwritten before anything reads them, so the sliders
\* are left at their defaults there.
NewRequest ==
    /\ runs < MaxRequests
    /\ \/ \E r \in RateStops, l \in LiquidityStops, i \in InflationStops :
              Request("Custom", r, l, i)
       \/ \E s \in Scenarios \ {"Custom"} : Request(s, 0, 0, 0)

Next ==
    \/ NewRequest
    \/ History
    \/ ProjectionLoop
    \/ Contributions
    \/ Classify
    \/ HeatDf
    \/ Insights

Spec == Init /\ [][Next]_vars

\* Quarter-point shock values up to `reach` positions either side of zero.
QuarterPoints(reach) == {25 * k : k \in -reach .. reach}

\* One request, with the rate and inflation shocks anywhere on the quarter
\* point grid up to ShockReach positions from zero (the sliders and beyond),
\* the liquidity shock anywhere on its slider, and any preset.
SweepRequest ==
    /\ runs = 0
    /\ \/ \E r \in QuarterPoints(ShockReach), l \in LiquiditySlider,
             i \in QuarterPoints(ShockReach) :
              Request("Custom", r, l, i)
       \/ \E s \in Scenarios \ {"Custom"} : Request(s, 0, 0, 0)

NextSweep ==
    \/ SweepRequest
    \/ History
    \/ ProjectionLoop
    \/ Contributions
    \/ Classify
    \/ HeatDf
    \/ Insights

SpecSweep == Init /\ [][NextSweep]_vars

\* The largest raw score the sliders can produce: 2.0 * 3 + 5.0 * 2 + 2.0 * 4.
MaxRawScore == ContribInterest(200) + ContribLiquidity(500) + ContribInflation(200)

\* The score classifier alone, applied to every raw score from 0 up to the
\* largest one, in hundredths.
InitLevel ==
    /\ pc = "classify"
    /\ risk_score \in 0 .. MaxRawScore
    /\ Blank

NextLevel == Classify

SpecLevel == InitLevel /\ [][NextLevel]_vars

\* ----------------------------------------------------------- claims
\* Stages of the current request that have been executed.
HistDone == pc \notin {"ready", "history"}

LoopDone == pc \notin {"ready", "history", "project"}

ContribDone == pc \in {"classify", "heat", "insight", "done", "failed"}

Classified == pc \in {"heat", "insight", "done", "failed"}

InsightsRan == pc \in {"done", "failed"}

YearIndex == 1 .. NumYears

\* C1: for every year and every combination of the three shocks the row
\* satisfies 0 <= GDP_Worst <= Projected_GDP <= GDP_Best.
C1_BandOrder ==
    LoopDone =>
        /\ Len(projected_gdp) = NumYears
        /\ Len(proj_gdp_best) = NumYears
        /\ Len(proj_gdp_worst) = NumYears
        /\ \A k \in YearIndex :
               /\ 0 <= proj_gdp_worst[k]
               /\ proj_gdp_worst[k] <= projected_gdp[k]
               /\ projected_gdp[k] <= proj_gdp_best[k]

\* The largest slider shocks, with a band of positive width in every year.
C1_Witness ==
    /\ LoopDone
    /\ interest_rate_change = 200
    /\ liquidity_change = -500
    /\ inflation_change = 200
    /\ \A k \in YearIndex :
           /\ proj_gdp_worst[k] < projected_gdp[k]
           /\ projected_gdp[k] < proj_gdp_best[k]

\* C2: every request runs to completion and yields the five insight strings.
C2_AlwaysCompletes ==
    /\ pc # "failed"
    /\ pc = "done" => Len(insights) = 5

LevelText(level) ==
    CASE level = "High" -> "High risk"
      [] level = "Medium" -> "Medium risk"
      [] level = "Low" -> "Low risk"
      [] OTHER -> "none"

\* C3: the overall statement names High / Medium / Low risk exactly when the
\* risk level is High / Medium / Low: the statement the insight code selects
\* for the score agrees with the level, and it is the one emitted.
C3_OverallKeyedToLevel ==
    /\ Classified =>
           OverallStatement(risk_score_normalized).text = LevelText(risk_level)
    /\ InsightsRan =>
           \E n \in DOMAIN insights :
               /\ insights[n].kind = "overall"
               /\ insights[n].text = LevelText(risk_level)

NormalizedOf(x, l, i) ==
    RiskScoreNormalized(ContribInterest(x) + ContribLiquidity(l) + ContribInflation(i))

\* C4: the normalized score lies in [0, 10] and does not decrease when the
\* magnitude of one shock grows while the other two stay fixed.
C4_ScoreRangeMonotone ==
    Classified =>
        /\ 0 <= risk_score_normalized
        /\ risk_score_normalized <= 10 * NormUnit
        /\ \A x \in QuarterPoints(ShockReach) :
               /\ Abs(x) >= Abs(interest_rate_change) =>
                      NormalizedOf(x, liquidity_change, inflation_change)
                          >= risk_score_normalized
               /\ Abs(x) >= Abs(inflation_change) =>
                      NormalizedOf(interest_rate_change, liquidity_change, x)
                          >= risk_score_normalized
        /\ \A l \in LiquiditySlider :
               Abs(l) >= Abs(liquidity_change) =>
                   NormalizedOf(interest_rate_change, l, inflation_change)
                       >= risk_score_normalized

\* A rate cut with two smaller shocks: score (3 + 1 + 1) / 9 * 10, below the cap.
C4_Witness ==
    /\ Classified
    /\ interest_rate_change = -100
    /\ liquidity_change = 50
    /\ inflation_change = -25
    /\ risk_score_normalized = 5000

\* C5: the level depends on the normalized score alone: below 3 Low, from 3
\* up to but not including 6 Medium, from 6 High.
C5_LevelThresholds ==
    Classified =>
        /\ risk_score_normalized = Min(10 * NormUnit, risk_score * 10)
        /\ risk_level = "Low" <=> risk_score_normalized < 3 * NormUnit
        /\ risk_level = "Medium" <=>
               (3 * NormUnit <= risk_score_normalized
                   /\ risk_score_normalized < 6 * NormUnit)
        /\ risk_level = "High" <=> risk_score_normalized >= 6 * NormUnit

\* A score of exactly 3.0 (raw score 2.7), classified Medium.
C5_Witness ==
    /\ Classified
    /\ risk_score = 270
    /\ risk_score_normalized = 3 * NormUnit
    /\ risk_level = "Medium"

\* C6: with all three shocks zero every year keeps its GDP and inflation,
\* both scores are 0 and the level is Low.
C6_ZeroShock ==
    (/\ Classified
     /\ interest_rate_change = 0
     /\ liquidity_change = 0
     /\ inflation_change = 0) =>
        /\ \A k \in YearIndex :
               /\ projected_gdp[k] = gdp[k] * 1000
               /\ projected_infl[k] = inflation[k]
        /\ risk_score = 0
        /\ risk_score_normalized = 0
        /\ risk_level = "Low"

\* A second request with zero shocks, after some earlier request.
C6_Witness ==
    /\ Classified
    /\ runs = 2
    /\ scenario = "Custom"
    /\ interest_rate_change = 0
    /\ liquidity_change = 0
    /\ inflation_change = 0
    /\ Len(projected_gdp) = NumYears

\* The rate effect 0.6 * x + 0.25 * x^2, in millionths of a point.
RateEffectClaimed(x) == 6000 * x + 25 * x * x

\* The general half of C7: the quadratic term is the same for x and -x and
\* never negative, and with no other shock each year's projected GDP is its
\* GDP reduced by 0.6 * x + 0.25 * x^2 percent.
C7_RateEffectShape ==
    LoopDone =>
        /\ IntQuad(interest_rate_change) >= 0
        /\ IntQuad(interest_rate_change) = IntQuad(-interest_rate_change)
        /\ InterestEffectPct(interest_rate_change)
               = RateEffectClaimed(interest_rate_change)
        /\ (liquidity_change = 0 /\ inflation_change = 0) =>
               \A k \in YearIndex :
                   projected_gdp[k] =
                       Max(gdp[k] * 1000
                               + MulDivFloor(gdp[k],
                                     -RateEffectClaimed(interest_rate_change),
                                     100000), 0)

RateOnlyPlusTwo ==
    /\ LoopDone
    /\ interest_rate_change = 200
    /\ liquidity_change = 0
    /\ inflation_change = 0

\* C7 as stated: the shape above, and for x = +2 with no other shock a GDP
\* of 1000 is projected to 977.8.
C7_AsStated ==
    /\ C7_RateEffectShape
    /\ RateOnlyPlusTwo =>
           Projected(1000, CombinedPct(interest_rate_change, liquidity_change,
                                       inflation_change)) = 977800

\* C7 amended: the shape above, and for x = +2 with no other shock a GDP of
\* 1000 is projected to 978.0, every year to 97.8 percent of its GDP.
C7_RateEffect ==
    /\ C7_RateEffectShape
    /\ RateOnlyPlusTwo =>
           /\ Projected(1000, CombinedPct(interest_rate_change, liquidity_change,
                                          inflation_change)) = 978000
           /\ \A k \in YearIndex : projected_gdp[k] = gdp[k] * 978

C7_Witness == RateOnlyPlusTwo /\ Len(projected_gdp) = NumYears

\* The inflation effect 0.35 * i, plus 0.05 * (|i| - 2)^2 * sign(i) when
\* |i| > 2, in millionths of a point.
InflEffectClaimed(i) ==
    3500 * i + (IF Abs(i) > 200 THEN 5 * (Abs(i) - 200) * (Abs(i) - 200) * Sign(i)
                ELSE 0)

\* C8: the inflation effect is gamma_infl * i, with the signed quadratic
\* penalty added exactly when |i| > 2.0 (none at |i| = 2.0), and i = +3.0
\* gives 1.10; with no other shock each year's projected GDP is its GDP
\* reduced by that percentage.
C8_InflationEffect ==
    LoopDone =>
        /\ InflEffectPct(inflation_change) = InflEffectClaimed(inflation_change)
        /\ InflPenalty(inflation_change) # 0 <=> Abs(inflation_change) > 200
        /\ Abs(inflation_change) > 200 =>
               Sign(InflPenalty(inflation_change)) = Sign(inflation_change)
        /\ inflation_change = 300 => InflEffectPct(inflation_change) = 1100000
        /\ (interest_rate_change = 0 /\ liquidity_change = 0) =>
               \A k \in YearIndex :
                   projected_gdp[k] =
                       Max(gdp[k] * 1000
                               + MulDivFloor(gdp[k],
                                     -InflEffectClaimed(inflation_change),
                                     100000), 0)

\* An inflation shock of +3.0 alone.
C8_Witness ==
    /\ LoopDone
    /\ interest_rate_change = 0
    /\ liquidity_change = 0
    /\ inflation_change = 300
    /\ Len(projected_gdp) = NumYears

\* C9: whatever requests came before, the historical series is the one the
\* seed gives, and the rows and the risk assessment are those computed from
\* the current request's inputs alone.
C9_NoCarryOver ==
    /\ HistDone =>
           /\ rng = 2 * NumYears
           /\ gdp = [k \in YearIndex |-> 1000 + (k - 1) * 50 + RngIntegers[k]]
           /\ inflation = [k \in YearIndex |-> 5000000 + RngUniform[k]]
           /\ gdp_vol_pct = GdpVolPct(gdp)
    /\ LoopDone =>
           /\ projected_gdp = [k \in YearIndex |-> Row(k).projected]
           /\ proj_gdp_best = [k \in YearIndex |-> Row(k).best]
           /\ proj_gdp_worst = [k \in YearIndex |-> Row(k).worst]
           /\ projected_infl = [k \in YearIndex |-> Row(k).infl]
    /\ Classified =>
           /\ risk_score = 3 * Abs(interest_rate_change) + 2 * Abs(liquidity_change)
                               + 4 * Abs(inflation_change)
           /\ risk_score_normalized = Min(10 * NormUnit, risk_score * 10)
           /\ risk_level = RiskLevel(risk_score_normalized)

\* A second request of a session, after an earlier request with whatever
\* inputs, with its rows and risk assessment computed.
C9_Witness ==
    /\ runs = 2
    /\ Classified
    /\ scenario = "Custom"
    /\ interest_rate_change = 200
    /\ liquidity_change = -500
    /\ inflation_change = 0
    /\ Len(projected_gdp) = NumYears

\* The channel with the largest contribution, ties going to inflation, then
\* liquidity, then rate.
PriorityDominant ==
    IF contrib_inflation >= contrib_liquidity /\ contrib_inflation >= contrib_interest
    THEN "Inflation"
    ELSE IF contrib_liquidity >= contrib_interest THEN "Liquidity"
    ELSE "Interest Rate"

\* C10: the insight generator names as dominant the channel with the largest
\* contribution, ties broken in the order inflation > liquidity > rate.
C10_DominantByPriority == InsightsRan => dominant = PriorityDominant

====
